---- MODULE Spec2Model ----
(***************************************************************************)
(* recommendpy.api.base: the check_token decorator, the generic Read/CRUD  *)
(* operations built on it, and SearchAPI.search_iterator.                   *)
(*                                                                         *)
(* The client object (api._client) lives outside api/base.py.  It is        *)
(* modelled from its documented contract: is_auth_token_setted,             *)
(* set_auth_token(), refresh_token(), tokens['auth'] with is_expired and    *)
(* need_refresh, and send().                                                *)
(***************************************************************************)
EXTENDS Integers, Sequences, FiniteSets, TLC

VARIABLES
    is_auth_token_setted,  \* client.is_auth_token_setted
    hdrCurrent,            \* the installed credential is the one now in tokens['auth']
    tokState,              \* expiry state of the object tokens['auth']
    installable,           \* the client holds a credential set_auth_token can install
    live,                  \* the threads and generators of this run, and the
                           \* items its server holds
    pc,                    \* per thread: the line of check_token.wrapper it is at
    call,                  \* per thread: the locals of the guarded call in progress
    it,                    \* per generator: the frame of one search_iterator invocation
    gp                     \* the get_path call under study: its API object, its
                           \* arguments and, once it returned, its result

vars == <<is_auth_token_setted, hdrCurrent, tokState, installable, live, pc, call, it, gp>>

clientVars == <<is_auth_token_setted, hdrCurrent, tokState, installable>>

Threads == {1, 2}

Gens == {1, 2}

\* The caller of a guarded call: User, or the generator whose line 216 made it.
User == 0

TokStates == {"valid", "need_refresh", "expired"}

-----------------------------------------------------------------------------
(* Python values that reach get_path and the truthiness tests of base.py.   *)

None == [t |-> "none"]

PStr(s) == [t |-> "str", s |-> s]

PInt(n) == [t |-> "int", n |-> n]

PList(l) == [t |-> "list", l |-> l]

PTuple(l) == [t |-> "tuple", l |-> l]

\* bool(v) for the values above.
Truthy(v) ==
    CASE v.t = "none" -> FALSE
      [] v.t = "str" -> v.s # <<>>
      [] v.t = "int" -> v.n # 0
      [] v.t \in {"list", "tuple"} -> v.l # <<>>

Digit(n) == <<"0", "1", "2", "3", "4", "5", "6", "7", "8", "9">>[n + 1]

\* repr(v) of a string without quotes or backslashes, and of a single digit.
Repr(v) ==
    CASE v.t = "str" -> <<"'">> \o v.s \o <<"'">>
      [] v.t = "int" -> <<Digit(v.n)>>
      [] v.t = "none" -> <<"N", "o", "n", "e">>

RECURSIVE ReprItems(_)
\* ', '.join(map(repr, l)) for the items of a list or tuple of such values.
ReprItems(l) ==
    IF l = <<>> THEN <<>>
    ELSE IF Len(l) = 1 THEN Repr(l[1])
    ELSE Repr(l[1]) \o <<",", " ">> \o ReprItems(Tail(l))

\* str(v) as a sequence of characters; integers here are single digits.
Str(v) ==
    CASE v.t = "none" -> <<"N", "o", "n", "e">>
      [] v.t = "str" -> v.s
      [] v.t = "int" -> <<Digit(v.n)>>
      [] v.t = "list" -> <<"[">> \o ReprItems(v.l) \o <<"]">>
      [] v.t = "tuple" ->
            <<"(">> \o ReprItems(v.l)
                   \o (IF Len(v.l) = 1 THEN <<",">> ELSE <<>>) \o <<")">>

RECURSIVE Join(_)
\* '/'.join(parts) for a sequence of character sequences.
Join(parts) ==
    IF parts = <<>> THEN <<>>
    ELSE IF Len(parts) = 1 THEN parts[1]
    ELSE parts[1] \o <<"/">> \o Join(Tail(parts))

\* map(str, url)
StrAll(url) == [i \in 1..Len(url) |-> Str(url[i])]

\* get_path with `is not None` for the truthiness test of line 60.
get_path_appends_falsy(endpoint, identifier, method, custom) ==
    LET u1 == <<endpoint>>
        u2 == IF identifier # None THEN Append(u1, identifier) ELSE u1
        u3 == IF Truthy(method) THEN Append(u2, method) ELSE u2
        u4 == IF Truthy(custom) /\ custom.t = "list" THEN u3 \o custom.l
              ELSE IF Truthy(custom) THEN Append(u3, custom)
              ELSE u3
    IN  Join(StrAll(u4))

\* BaseAPI.get_path
get_path(endpoint, identifier, method, custom) ==
    LET u1 == <<endpoint>>
        u2 == IF Truthy(identifier) THEN Append(u1, identifier) ELSE u1
        u3 == IF Truthy(method) THEN Append(u2, method) ELSE u2
        u4 == IF Truthy(custom) /\ custom.t = "list" THEN u3 \o custom.l
              ELSE IF Truthy(custom) THEN Append(u3, custom)
              ELSE u3
    IN  Join(StrAll(u4))

\* self.endpoint of the API object under test.
Endpoint == PStr(<<"e">>)

Idents == {None, PStr(<<>>), PStr(<<"a">>), PInt(0), PInt(7)}

Datas == {"d"}

\* The endpoints, methods and custom parts get_path is studied with.
Endpoints == {Endpoint, PStr(<<"v", "2">>)}

Methods == {None, PStr(<<>>), PStr(<<"s">>)}

Customs ==
    {None, PStr(<<>>), PStr(<<"c">>), PInt(0), PInt(7),
     PList(<<>>), PList(<<PStr(<<"a">>)>>), PList(<<PStr(<<"a">>), PInt(7)>>),
     PTuple(<<>>), PTuple(<<PStr(<<"a">>)>>),
     PTuple(<<PStr(<<"a">>), PStr(<<"b">>)>>)}

\* No get_path call is under study.
NoPath ==
    [pc |-> "none", self |-> [endpoint |-> Endpoint], identifier |-> None,
     method |-> None, custom |-> None, result |-> <<>>]

\* api.get_path(identifier, method, custom) runs from line 59 to its return.
GetPath ==
    /\ gp.pc = "called"
    /\ gp' = [gp EXCEPT !.pc = "returned",
                        !.result = get_path(gp.self.endpoint, gp.identifier,
                                            gp.method, gp.custom)]
    /\ UNCHANGED <<is_auth_token_setted, hdrCurrent, tokState, installable,
                   live, pc, call, it>>

-----------------------------------------------------------------------------
(* The client collaborator.                                                 *)

\* What one set_auth_token() call can do: install the current credential,
\* return with nothing installed when the client has none, or raise.
SetAuthTokenOutcomes ==
    (IF installable THEN {"installed"} ELSE {"nothing"}) \cup {"api_error"}

\* What one refresh_token() call can do.
RefreshTokenOutcomes == {"refreshed", "api_error"}

\* token.is_expired, read on the object bound at line 19.
is_expired == tokState = "expired"

\* token.need_refresh, read on the object bound at line 19.
need_refresh == tokState = "need_refresh"

\* Effect of a set_auth_token() that returned, on the client's state.
ApplySet(out) ==
    /\ is_auth_token_setted' = (is_auth_token_setted \/ out = "installed")
    /\ hdrCurrent' = (hdrCurrent \/ out = "installed")
    /\ UNCHANGED <<tokState, installable>>

\* Effect of a refresh_token() that returned: tokens['auth'] now carries a
\* new credential, not yet installed.
ApplyRefresh ==
    /\ tokState' = "valid"
    /\ installable' = TRUE
    /\ hdrCurrent' = FALSE
    /\ UNCHANGED is_auth_token_setted

-----------------------------------------------------------------------------
(* A guarded call.                                                          *)

\* The operations a caller invokes directly; search is the one the
\* generator invokes.
UserOps == {"get", "list", "create", "update", "delete"}

Ops == UserOps \cup {"search"}

NoOutcome == [kind |-> "none"]

IdleCall ==
    [op |-> "none", caller |-> User, identifier |-> None, data |-> "none",
     skip |-> 0, limit |-> 0, log |-> <<>>, swallowed |-> FALSE,
     start |-> [set |-> FALSE, state |-> "valid"],
     sent |-> <<>>, bodyRan |-> FALSE, outcome |-> NoOutcome,
     \* history: what line 29 read, "none" until it is reached
     final |-> "none",
     \* history: what each client.send of the body returned or raised
     replies |-> <<>>,
     \* history: the call came through ReadAPI.__call__, with this identifier
     viaCall |-> FALSE, arg |-> None,
     \* history: the lines at which a client method raised RecommendAPIError
     raised |-> <<>>]

NewCall(o, who, id, d, sk, lim) ==
    [IdleCall EXCEPT !.op = o, !.caller = who, !.identifier = id, !.data = d,
                     !.skip = sk, !.limit = lim,
                     !.start = [set |-> is_auth_token_setted, state |-> tokState]]

Logged(t, name) == [call EXCEPT ![t].log = Append(call[t].log, name)]

\* The call of thread t after the client method `name`, called at the line
\* the thread is at, raised RecommendAPIError.
LoggedRaise(t, name) ==
    [call EXCEPT ![t].log = Append(call[t].log, name),
                 ![t].raised = Append(call[t].raised, pc[t])]

\* A generator is running on thread t (between its resumption and its next
\* yield), so t cannot start another call of its own.
Running(t) == \E g \in Gens : it[g].runner = t /\ it[g].pc \in {"l216", "calling"}

\* Line 16: `if not api._client.is_auth_token_setted`.
NeedsInstall == ~is_auth_token_setted

\* Line 29 without its test.
NoTokenInstalled_dropped == FALSE

\* Line 29: `if not api._client.is_auth_token_setted`.
NoTokenInstalled == ~is_auth_token_setted

\* The call of thread t with what the client held when line 29 was reached.
AtLine29(t) ==
    [call EXCEPT ![t].final = IF is_auth_token_setted THEN "set" ELSE "unset"]

\* A caller starts a guarded operation (wrapper is entered).
Start(t, o, id, d) ==
    /\ t \in live.threads
    /\ pc[t] = "idle"
    /\ ~Running(t)
    /\ o \in UserOps
    /\ pc' = [pc EXCEPT ![t] = "l16"]
    /\ call' = [call EXCEPT ![t] = NewCall(o, User, id, d, 0, 0)]
    /\ UNCHANGED <<clientVars, live, gp, it>>

\* Line 88 with `if identifier is not None`.
DispatchesToGet_not_none(identifier) == identifier # None

\* ReadAPI.__call__, line 88: `if identifier`.
DispatchesToGet(identifier) == Truthy(identifier)

\* ReadAPI.__call__(identifier) (lines 88-90): self.get(identifier) or
\* self.list(), each entering check_token.
CallAPI(t, id) ==
    /\ t \in live.threads
    /\ pc[t] = "idle"
    /\ ~Running(t)
    /\ pc' = [pc EXCEPT ![t] = "l16"]
    /\ call' = [call EXCEPT ![t] =
                   [(IF DispatchesToGet(id)
                     THEN NewCall("get", User, id, "none", 0, 0)
                     ELSE NewCall("list", User, None, "none", 0, 0))
                    EXCEPT !.viaCall = TRUE, !.arg = id]]
    /\ UNCHANGED <<clientVars, live, gp, it>>

\* The lines of the wrapper before the wrapped operation is called.
GuardLines == {"l16", "l17", "l20", "l21", "l22", "l23", "l25", "l26", "l29"}

\* Line 16 in a wrapper that holds a lock of the client from line 16 to
\* line 30: the thread waits while another thread is between these lines.
L16_locked(t) ==
    /\ pc[t] = "l16"
    /\ \A u \in Threads \ {t} : pc[u] \notin GuardLines \ {"l16"}
    /\ pc' = [pc EXCEPT ![t] = IF NeedsInstall THEN "l17" ELSE "l20"]
    /\ UNCHANGED <<clientVars, live, gp, call, it>>

\* Line 16 with lines 16-17 left out.
L16_never_installs(t) ==
    /\ pc[t] = "l16"
    /\ pc' = [pc EXCEPT ![t] = "l20"]
    /\ UNCHANGED <<clientVars, live, gp, call, it>>

\* Line 16.
L16(t) ==
    /\ pc[t] = "l16"
    /\ pc' = [pc EXCEPT ![t] = IF NeedsInstall THEN "l17" ELSE "l20"]
    /\ UNCHANGED <<clientVars, live, gp, call, it>>

\* A set_auth_token() whose failure propagates (lines 17 and 22).
SetOrRaise(t, next) ==
    \E out \in SetAuthTokenOutcomes :
        IF out = "api_error"
        THEN /\ pc' = [pc EXCEPT ![t] = "ret"]
             /\ call' = [LoggedRaise(t, "set_auth_token") EXCEPT
                            ![t].outcome = [kind |-> "api_error"]]
             /\ UNCHANGED clientVars
        ELSE /\ pc' = [pc EXCEPT ![t] = next]
             /\ call' = Logged(t, "set_auth_token")
             /\ ApplySet(out)

\* A refresh_token() whose failure propagates (line 21).
RefreshOrRaise(t, next) ==
    \E out \in RefreshTokenOutcomes :
        IF out = "api_error"
        THEN /\ pc' = [pc EXCEPT ![t] = "ret"]
             /\ call' = [LoggedRaise(t, "refresh_token") EXCEPT
                            ![t].outcome = [kind |-> "api_error"]]
             /\ UNCHANGED clientVars
        ELSE /\ pc' = [pc EXCEPT ![t] = next]
             /\ call' = Logged(t, "refresh_token")
             /\ ApplyRefresh

\* Line 17; line 19 binds `token` to the object tokens['auth'].
L17(t) ==
    /\ pc[t] = "l17"
    /\ SetOrRaise(t, "l20")
    /\ UNCHANGED <<live, gp, it>>

\* Line 20 with the expiry test left out.
L20_skips_refresh(t) ==
    /\ pc[t] = "l20"
    /\ pc' = [pc EXCEPT ![t] = "l23"]
    /\ UNCHANGED <<clientVars, live, gp, call, it>>

\* Line 20.
L20(t) ==
    /\ pc[t] = "l20"
    /\ pc' = [pc EXCEPT ![t] = IF is_expired THEN "l21" ELSE "l23"]
    /\ UNCHANGED <<clientVars, live, gp, call, it>>

\* Line 21 inside a try block like that of lines 24-28: a failure of
\* refresh_token is logged and the wrapper goes on to line 23.
L21_suppresses(t) ==
    /\ pc[t] = "l21"
    /\ \E out \in RefreshTokenOutcomes :
          IF out = "api_error"
          THEN /\ pc' = [pc EXCEPT ![t] = "l23"]
               /\ call' = [LoggedRaise(t, "refresh_token") EXCEPT
                              ![t].swallowed = TRUE]
               /\ UNCHANGED clientVars
          ELSE /\ pc' = [pc EXCEPT ![t] = "l22"]
               /\ call' = Logged(t, "refresh_token")
               /\ ApplyRefresh
    /\ UNCHANGED <<live, gp, it>>

\* Line 21 with line 22 left out.
L21_no_install(t) ==
    /\ pc[t] = "l21"
    /\ RefreshOrRaise(t, "l23")
    /\ UNCHANGED <<live, gp, it>>

\* Line 21.
L21(t) ==
    /\ pc[t] = "l21"
    /\ RefreshOrRaise(t, "l22")
    /\ UNCHANGED <<live, gp, it>>

\* Line 22.
L22(t) ==
    /\ pc[t] = "l22"
    /\ SetOrRaise(t, "l23")
    /\ UNCHANGED <<live, gp, it>>

\* Line 23 deciding on the state the token had when the call began, an
\* expired token counting as one that needs a refresh.
L23_stale(t) ==
    /\ pc[t] = "l23"
    /\ pc' = [pc EXCEPT ![t] = IF call[t].start.state # "valid"
                               THEN "l25" ELSE "l29"]
    /\ UNCHANGED <<clientVars, live, gp, call, it>>

\* Line 23.
L23(t) ==
    /\ pc[t] = "l23"
    /\ pc' = [pc EXCEPT ![t] = IF need_refresh THEN "l25" ELSE "l29"]
    /\ UNCHANGED <<clientVars, live, gp, call, it>>

\* Lines 27-28 with a handler that logs the error and raises it again.
ProactiveFailure_reraises(t, name) ==
    /\ pc' = [pc EXCEPT ![t] = "ret"]
    /\ call' = [LoggedRaise(t, name) EXCEPT ![t].swallowed = TRUE,
                                            ![t].outcome = [kind |-> "api_error"]]
    /\ UNCHANGED clientVars

\* Lines 27-28: a RecommendAPIError raised inside the try block by the client
\* method `name` is logged and the wrapper goes on to line 29.
ProactiveFailure(t, name) ==
    /\ pc' = [pc EXCEPT ![t] = "l29"]
    /\ call' = [LoggedRaise(t, name) EXCEPT ![t].swallowed = TRUE]
    /\ UNCHANGED clientVars

\* Line 25, inside the try block.
L25(t) ==
    /\ pc[t] = "l25"
    /\ \E out \in RefreshTokenOutcomes :
          IF out = "api_error"
          THEN ProactiveFailure(t, "refresh_token")
          ELSE /\ pc' = [pc EXCEPT ![t] = "l26"]
               /\ call' = Logged(t, "refresh_token")
               /\ ApplyRefresh
    /\ UNCHANGED <<live, gp, it>>

\* Line 26, inside the try block.
L26(t) ==
    /\ pc[t] = "l26"
    /\ \E out \in SetAuthTokenOutcomes :
          IF out = "api_error"
          THEN ProactiveFailure(t, "set_auth_token")
          ELSE /\ pc' = [pc EXCEPT ![t] = "l29"]
               /\ call' = Logged(t, "set_auth_token")
               /\ ApplySet(out)
    /\ UNCHANGED <<live, gp, it>>

\* Lines 29-30.
L29(t) ==
    /\ pc[t] = "l29"
    /\ IF NoTokenInstalled
       THEN /\ pc' = [pc EXCEPT ![t] = "ret"]
            /\ call' = [AtLine29(t) EXCEPT ![t].outcome = [kind |-> "unauthorized"]]
       ELSE /\ pc' = [pc EXCEPT ![t] = "l31"]
            /\ call' = AtLine29(t)
    /\ UNCHANGED <<clientVars, live, gp, it>>

-----------------------------------------------------------------------------
(* The wrapped operations (line 31 runs func).                              *)

Keys == {"data", "limit", "total"}

Items == {"a", "b"}

\* Longest `data` list of one response.
MaxData == 2

\* Largest `limit` a response reports.
MaxLimit == 1

\* Largest `total` a response reports.
MaxTotal == 1

\* The server reports no page that would move skip past this offset.
MaxSkip == 2

\* A generator is followed until it has yielded this many items.
MaxYield == 2

\* Largest max_failed a caller passes.
MaxFailed == 1

\* With two generators, each is followed for this many search calls.
MaxCalls == 2

\* The start_skip values a caller passes.
StartSkips == {0, 1}

RECURSIVE SeqsUpTo(_, _)
SeqsUpTo(S, n) ==
    IF n = 0 THEN {<<>>}
    ELSE LET shorter == SeqsUpTo(S, n - 1)
         IN  shorter \cup {Append(q, x) : q \in shorter, x \in S}

\* A JSON object: `has` is its key set; an absent key holds a fixed filler.
Dicts ==
    {[has |-> K, data |-> d, limit |-> l, total |-> tt] :
        K \in SUBSET Keys, d \in SeqsUpTo(live.items, MaxData),
        l \in 0..MaxLimit, tt \in 0..MaxTotal}

WellFormedDict(r) ==
    /\ "data" \notin r.has => r.data = <<>>
    /\ "limit" \notin r.has => r.limit = 0
    /\ "total" \notin r.has => r.total = 0

\* A JSON value that is no dict (None, a list, ...).
NotADict == [isdict |-> FALSE]

ADict(r) == [isdict |-> TRUE, d |-> r]

\* isinstance(result, dict)
IsDict(v) == v.isdict

\* result.get(key, default)
DictGet(r, key, default) == IF key \in r.has THEN r[key] ELSE default

\* What client.send can return to a search call made with this skip, by a
\* generator that is followed for `room` more items.
SearchReplies(skip, room) ==
    {NotADict} \cup
    {ADict(r) : r \in {x \in Dicts : /\ WellFormedDict(x)
                                     /\ skip + x.limit <= MaxSkip
                                     /\ Len(x.data) <= room}}

\* What client.send can return to the other operations.
JsonReplies == {ADict([has |-> {}, data |-> <<>>, limit |-> 0, total |-> 0])}

\* The requests with update sending the verb of create.
Request_update_posts(c) ==
    CASE c.op \in {"get", "delete"} ->
            [verb |-> c.op, path |-> get_path(Endpoint, c.identifier, None, None),
             data |-> "none"]
      [] c.op = "list" ->
            [verb |-> "get", path |-> get_path(Endpoint, None, None, None),
             data |-> "none"]
      [] c.op \in {"create", "update"} ->
            [verb |-> "post", path |-> get_path(Endpoint, c.identifier, None, None),
             data |-> c.data]
      [] c.op = "search" ->
            [verb |-> "post",
             path |-> get_path(Endpoint, None, PStr(<<"s">>), None),
             data |-> "none"]

\* The verb, path and body each wrapped operation hands to client.send
\* (base.py 104-106, 119-121, 140-142, 157-159, 173-175; messaging.py 129-131).
Request(c) ==
    CASE c.op = "get" ->
            [verb |-> "get", path |-> get_path(Endpoint, c.identifier, None, None),
             data |-> "none"]
      [] c.op = "list" ->
            [verb |-> "get", path |-> get_path(Endpoint, None, None, None),
             data |-> "none"]
      [] c.op = "create" ->
            [verb |-> "post", path |-> get_path(Endpoint, c.identifier, None, None),
             data |-> c.data]
      [] c.op = "update" ->
            [verb |-> "put", path |-> get_path(Endpoint, c.identifier, None, None),
             data |-> c.data]
      [] c.op = "delete" ->
            [verb |-> "delete", path |-> get_path(Endpoint, c.identifier, None, None),
             data |-> "none"]
      [] c.op = "search" ->
            [verb |-> "post",
             path |-> get_path(Endpoint, None, PStr(<<"s">>), None),
             data |-> "none"]

\* What the client.send of the call on thread t can do: return a JSON value
\* or raise RecommendAPIError.
SendReplies(t) ==
    {[kind |-> "api_error"]} \cup
    {[kind |-> "value", val |-> v] :
        v \in IF call[t].op = "search"
              THEN SearchReplies(call[t].skip,
                                 MaxYield - Len(it[call[t].caller].yielded))
              ELSE JsonReplies}

\* Line 31 in a wrapper that runs the wrapped operation once more when it
\* raised RecommendAPIError.
L31_retries(t) ==
    /\ pc[t] = "l31"
    /\ \E reply \in SendReplies(t), again \in SendReplies(t) :
          call' = IF reply.kind = "api_error"
                  THEN [call EXCEPT
                          ![t].sent = call[t].sent \o
                                        <<Request(call[t]), Request(call[t])>>,
                          ![t].replies = call[t].replies \o <<reply, again>>,
                          ![t].bodyRan = TRUE,
                          ![t].outcome = again]
                  ELSE [call EXCEPT
                          ![t].sent = Append(call[t].sent, Request(call[t])),
                          ![t].replies = Append(call[t].replies, reply),
                          ![t].bodyRan = TRUE,
                          ![t].outcome = reply]
    /\ pc' = [pc EXCEPT ![t] = "ret"]
    /\ UNCHANGED <<clientVars, live, gp, it>>

\* Line 31: the wrapped operation runs; its one client.send returns a JSON
\* value or raises RecommendAPIError, and the wrapper passes either on.
L31(t) ==
    /\ pc[t] = "l31"
    /\ \E reply \in SendReplies(t) :
          call' = [call EXCEPT ![t].sent = Append(call[t].sent, Request(call[t])),
                               ![t].replies = Append(call[t].replies, reply),
                               ![t].bodyRan = TRUE,
                               ![t].outcome = reply]
    /\ pc' = [pc EXCEPT ![t] = "ret"]
    /\ UNCHANGED <<clientVars, live, gp, it>>

\* The wrapper's result or exception reaches a caller that is not a generator.
Return(t) ==
    /\ pc[t] = "ret"
    /\ call[t].caller = User
    /\ pc' = [pc EXCEPT ![t] = "idle"]
    /\ call' = [call EXCEPT ![t] = IdleCall]
    /\ UNCHANGED <<clientVars, live, gp, it>>

\* Time passes between calls: the token nears and then passes its expiry.
Tick ==
    /\ \A t \in Threads : pc[t] = "idle"
    /\ tokState # "expired"
    /\ tokState' = IF tokState = "valid" THEN "need_refresh" ELSE "expired"
    /\ UNCHANGED <<is_auth_token_setted, hdrCurrent, installable, live, gp, pc, call, it>>

-----------------------------------------------------------------------------
(* SearchAPI.search_iterator: one frame per generator.                      *)

\* limit = 3000 (line 213)
InitLimit == 3000

EmptyDict == [has |-> {}, data |-> <<>>, limit |-> 0, total |-> 0]

NoFrame ==
    [pc |-> "none", runner |-> 0, start_skip |-> 0, max_failed |-> 0,
     skip |-> 0, limit |-> 0, failed_count |-> 0,
     result |-> EmptyDict, pending |-> <<>>, err |-> "none",
     \* history, read by the properties only
     yielded |-> <<>>, lastKind |-> "none", lastSkip |-> 0, lastLimit |-> 0,
     lastTotal |-> 0, consecFailed |-> 0, consecNotDict |-> 0,
     calls |-> 0, lastPageLimit |-> 0, served |-> <<>>]

\* The history counters stop counting here.
CountCap == MaxFailed + 2

Bump(n) == IF n < CountCap THEN n + 1 ELSE n

\* The search calls a generator has made, counted up to MaxCalls.
CountCall(n) == IF n < MaxCalls THEN n + 1 ELSE n

\* Line 225 with `<=` for `<`.
StopCondition_le(result, limit) == DictGet(result, "total", 0) <= limit

\* Line 225: `if result.get('total', 0) < limit`.
StopCondition(result, limit) == DictGet(result, "total", 0) < limit

\* Lines 224-227 with the cursor advanced by the limit that was requested,
\* not by the one the page reports.
AfterPage_requested_limit(f) ==
    LET lim == DictGet(f.result, "limit", 0)
        f1 == [f EXCEPT !.limit = lim, !.result = EmptyDict,
                        !.lastTotal = DictGet(f.result, "total", 0)]
    IN  IF StopCondition(f.result, lim)
        THEN [f1 EXCEPT !.pc = "done", !.runner = 0]
        ELSE [f1 EXCEPT !.skip = f.skip + f.limit, !.pc = "l216"]

\* Lines 224-227, after the for loop over result['data'] is exhausted.
\* `result` is not read again before line 216 rebinds it: the frame drops it,
\* and keeps the total it reported for the properties.
AfterPage(f) ==
    LET lim == DictGet(f.result, "limit", 0)
        f1 == [f EXCEPT !.limit = lim, !.result = EmptyDict,
                        !.lastTotal = DictGet(f.result, "total", 0)]
    IN  IF StopCondition(f.result, lim)
        THEN [f1 EXCEPT !.pc = "done", !.runner = 0]
        ELSE [f1 EXCEPT !.skip = f.skip + lim, !.pc = "l216"]

\* Lines 228-231 with the cursor advanced on a failure.
OnError_advances(f, err) ==
    LET n == f.failed_count + 1
    IN  IF n > f.max_failed
        THEN [f EXCEPT !.failed_count = n, !.pc = "raised", !.err = err,
                       !.runner = 0]
        ELSE [f EXCEPT !.failed_count = n, !.pc = "l216",
                       !.skip = f.skip + 1]

\* Lines 228-231: the handler of RecommendAPIError `err`.
OnError(f, err) ==
    LET n == f.failed_count + 1
    IN  IF n > f.max_failed
        THEN [f EXCEPT !.failed_count = n, !.pc = "raised", !.err = err,
                       !.runner = 0]
        ELSE [f EXCEPT !.failed_count = n, !.pc = "l216"]

\* Lines 218-223 with the items of a page taken from its end.
OnReturn_last_first(f, v) ==
    LET f1 == [f EXCEPT !.failed_count = 0]
    IN  IF ~IsDict(v) THEN OnError(f1, "empty")
        ELSE LET data == DictGet(v.d, "data", <<>>)
                 f2 == [f1 EXCEPT !.result = v.d]
             IN  IF data = <<>> THEN AfterPage(f2)
                 ELSE [f2 EXCEPT !.pc = "l223", !.runner = 0,
                                 !.pending = SubSeq(data, 1, Len(data) - 1),
                                 !.yielded = Append(f.yielded, data[Len(data)])]

\* Lines 218-223, entered when search returned `v`: up to the first yield,
\* or through lines 224-227 when there is nothing to yield.
OnReturn(f, v) ==
    LET f1 == [f EXCEPT !.failed_count = 0]
    IN  IF ~IsDict(v) THEN OnError(f1, "empty")
        ELSE LET data == DictGet(v.d, "data", <<>>)
                 f2 == [f1 EXCEPT !.result = v.d]
             IN  IF data = <<>> THEN AfterPage(f2)
                 ELSE [f2 EXCEPT !.pc = "l223", !.runner = 0,
                                 !.pending = Tail(data),
                                 !.yielded = Append(f.yielded, Head(data))]

\* RecommendUnauthorizedError is an error kind of its own: `except
\* RecommendAPIError` does not catch it.
UnauthorizedIsAPIError == FALSE

\* An exception of search that line 228 does not catch leaves the generator.
Propagate(f, err) == [f EXCEPT !.pc = "raised", !.err = err, !.runner = 0]

\* How the search call that just ended is classified.
ReplyKind(o) ==
    IF o.kind = "value" THEN (IF IsDict(o.val) THEN "page" ELSE "not_dict")
    ELSE o.kind

\* The frame after the search call of line 216 ended with outcome o.
Handle(f, o) ==
    CASE o.kind = "value" -> OnReturn(f, o.val)
      [] o.kind = "api_error" -> OnError(f, "api")
      [] o.kind = "unauthorized" ->
            IF UnauthorizedIsAPIError THEN OnError(f, "unauthorized")
            ELSE Propagate(f, "unauthorized")

\* search_iterator(start_skip, max_failed) is called: a generator object is
\* made, none of its body has run.
IterCreate(g, ss, mf) ==
    /\ g \in live.gens
    /\ it[g].pc = "none"
    /\ it' = [it EXCEPT ![g] = [NoFrame EXCEPT !.pc = "created",
                                              !.start_skip = ss,
                                              !.max_failed = mf]]
    /\ UNCHANGED <<clientVars, live, gp, pc, call>>

\* next(generator) on thread t: the first one runs lines 211-214, a later one
\* resumes after the yield of line 223.
IterNext(g, t) ==
    /\ t \in live.threads
    /\ pc[t] = "idle"
    /\ ~Running(t)
    /\ \/ /\ it[g].pc = "created"
          /\ it' = [it EXCEPT ![g].pc = "l216", ![g].runner = t,
                              ![g].skip = it[g].start_skip,
                              ![g].failed_count = 0,
                              ![g].limit = InitLimit]
       \/ /\ it[g].pc = "l223"
          /\ it[g].pending # <<>>
          /\ it' = [it EXCEPT ![g].pending = Tail(it[g].pending),
                              ![g].yielded = Append(it[g].yielded,
                                                    Head(it[g].pending))]
       \/ /\ it[g].pc = "l223"
          /\ it[g].pending = <<>>
          /\ it' = [it EXCEPT ![g] = AfterPage([it[g] EXCEPT !.runner = t])]
    /\ UNCHANGED <<clientVars, live, gp, pc, call>>

\* Line 216 with the cursor kept in one place for the whole API object (the
\* frame of generator 1) and not in the locals of each invocation.
IterSearch_shared_cursor(g) ==
    /\ it[g].pc = "l216"
    /\ pc[it[g].runner] = "idle"
    /\ pc' = [pc EXCEPT ![it[g].runner] = "l16"]
    /\ call' = [call EXCEPT ![it[g].runner] =
                   NewCall("search", g, None, "none", it[1].skip, it[1].limit)]
    /\ it' = [it EXCEPT ![g].pc = "calling", ![g].calls = CountCall(it[g].calls)]
    /\ UNCHANGED <<clientVars, live, gp>>

\* Line 216: self.search(skip=skip, limit=limit, **kw) enters check_token.
IterSearch(g) ==
    /\ it[g].pc = "l216"
    /\ pc[it[g].runner] = "idle"
    /\ pc' = [pc EXCEPT ![it[g].runner] = "l16"]
    /\ call' = [call EXCEPT ![it[g].runner] =
                   NewCall("search", g, None, "none", it[g].skip, it[g].limit)]
    /\ it' = [it EXCEPT ![g].pc = "calling", ![g].calls = CountCall(it[g].calls)]
    /\ UNCHANGED <<clientVars, live, gp>>

\* The search call returns or raises into the generator (lines 218-231).
IterResult(g) ==
    /\ it[g].pc = "calling"
    /\ pc[it[g].runner] = "ret"
    /\ call[it[g].runner].caller = g
    /\ LET t == it[g].runner
           o == call[t].outcome
           k == ReplyKind(o)
           h == [Handle(it[g], o) EXCEPT
                    !.lastKind = k,
                    !.lastSkip = call[t].skip,
                    !.lastLimit = call[t].limit,
                    !.consecFailed =
                        IF k \in {"api_error", "not_dict"}
                        THEN Bump(it[g].consecFailed) ELSE 0,
                    !.consecNotDict =
                        IF k = "not_dict" THEN Bump(it[g].consecNotDict) ELSE 0,
                    !.lastPageLimit =
                        IF k = "page" THEN DictGet(o.val.d, "limit", 0) ELSE 0,
                    !.served =
                        IF k = "page"
                        THEN it[g].served \o DictGet(o.val.d, "data", <<>>)
                        ELSE it[g].served]
       IN  /\ it' = [it EXCEPT ![g] = h]
           /\ pc' = [pc EXCEPT ![t] = "idle"]
           /\ call' = [call EXCEPT ![t] = IdleCall]
    /\ UNCHANGED <<clientVars, live, gp>>

-----------------------------------------------------------------------------

\* A client and its threads, no call in progress, no generator made yet.
Init ==
    /\ is_auth_token_setted \in BOOLEAN
    /\ hdrCurrent = is_auth_token_setted
    /\ tokState \in TokStates
    /\ installable \in BOOLEAN
    /\ is_auth_token_setted => installable
    /\ live = [threads |-> {1}, gens |-> {}, items |-> {}]
    /\ pc = [t \in Threads |-> "idle"]
    /\ call = [t \in Threads |-> IdleCall]
    /\ it = [g \in Gens |-> NoFrame]
    /\ gp = NoPath

Guard(t) ==
    \/ L16(t) \/ L17(t) \/ L20(t) \/ L21(t) \/ L22(t)
    \/ L23(t) \/ L25(t) \/ L26(t) \/ L29(t) \/ L31(t)

\* One thread making guarded Read/CRUD calls one after the other.
Next ==
    \/ \E t \in Threads, o \in UserOps, id \in Idents, d \in Datas : Start(t, o, id, d)
    \/ \E t \in Threads, id \in Idents : CallAPI(t, id)
    \/ \E t \in Threads : Guard(t)
    \/ \E t \in Threads : Return(t)
    \/ Tick

Spec == Init /\ [][Next]_vars

\* The same client with one search_iterator generator consumed on thread 1.
InitIter ==
    /\ is_auth_token_setted \in BOOLEAN
    /\ hdrCurrent = is_auth_token_setted
    /\ tokState \in TokStates
    /\ installable \in BOOLEAN
    /\ is_auth_token_setted => installable
    /\ live = [threads |-> {1}, gens |-> {1}, items |-> {"a"}]
    /\ pc = [t \in Threads |-> "idle"]
    /\ call = [t \in Threads |-> IdleCall]
    /\ it = [g \in Gens |-> NoFrame]
    /\ gp = NoPath

IterStep ==
    \/ \E g \in Gens, ss \in StartSkips, mf \in 0..MaxFailed : IterCreate(g, ss, mf)
    \/ \E g \in Gens, t \in Threads : IterNext(g, t)
    \/ \E g \in Gens : IterSearch(g)
    \/ \E g \in Gens : IterResult(g)
    \/ \E t \in Threads : Guard(t)

NextIter == IterStep \/ Tick

IterSpec == InitIter /\ [][NextIter]_vars

\* The consumer keeps calling next() and every call it makes completes.
FairIterSpec == IterSpec /\ WF_vars(IterStep)

\* Two search_iterator generators of the same API object consumed by one
\* thread, their next() calls interleaved in every order; the client starts
\* with a fresh token, not yet installed.
InitTwoGens ==
    /\ is_auth_token_setted = FALSE
    /\ hdrCurrent = is_auth_token_setted
    /\ tokState = "valid"
    /\ installable = TRUE
    /\ live = [threads |-> {1}, gens |-> {1, 2}, items |-> {"a"}]
    /\ pc = [t \in Threads |-> "idle"]
    /\ call = [t \in Threads |-> IdleCall]
    /\ it = [g \in Gens |-> NoFrame]
    /\ gp = NoPath

\* Generator 1 starts at offset 0 and generator 2 at offset 1; each is
\* followed for MaxCalls search calls.
TwoGenStep ==
    \/ IterCreate(1, 0, MaxFailed)
    \/ IterCreate(2, 1, MaxFailed)
    \/ \E g \in Gens, t \in Threads : IterNext(g, t)
    \/ \E g \in Gens : it[g].calls < MaxCalls /\ IterSearch(g)
    \/ \E g \in Gens : IterResult(g)
    \/ \E t \in Threads : Guard(t)

NextTwoGens == TwoGenStep \/ Tick

TwoGenSpec == InitTwoGens /\ [][NextTwoGens]_vars

\* One generator over a server that holds two different items, the token
\* not ageing while the generator is consumed.
InitOrder ==
    /\ is_auth_token_setted \in BOOLEAN
    /\ hdrCurrent = is_auth_token_setted
    /\ tokState \in TokStates
    /\ installable = TRUE
    /\ live = [threads |-> {1}, gens |-> {1}, items |-> Items]
    /\ pc = [t \in Threads |-> "idle"]
    /\ call = [t \in Threads |-> IdleCall]
    /\ it = [g \in Gens |-> NoFrame]
    /\ gp = NoPath

NextOrder ==
    \/ \E g \in Gens : IterCreate(g, 0, MaxFailed)
    \/ \E g \in Gens, t \in Threads : IterNext(g, t)
    \/ \E g \in Gens : IterSearch(g)
    \/ \E g \in Gens : IterResult(g)
    \/ \E t \in Threads : Guard(t)

OrderSpec == InitOrder /\ [][NextOrder]_vars

\* Two threads making guarded get calls on the same client, the lines of
\* their wrappers interleaved in every order.
InitRace ==
    /\ is_auth_token_setted \in BOOLEAN
    /\ hdrCurrent = is_auth_token_setted
    /\ tokState \in TokStates
    /\ installable \in BOOLEAN
    /\ is_auth_token_setted => installable
    /\ live = [threads |-> {1, 2}, gens |-> {}, items |-> {}]
    /\ pc = [t \in Threads |-> "idle"]
    /\ call = [t \in Threads |-> IdleCall]
    /\ it = [g \in Gens |-> NoFrame]
    /\ gp = NoPath

NextRace ==
    \/ \E t \in Threads : Start(t, "get", PInt(7), "d")
    \/ \E t \in Threads : Guard(t)
    \/ \E t \in Threads : Return(t)
    \/ Tick

RaceSpec == InitRace /\ [][NextRace]_vars

\* One get_path call on an API object whose client is at rest, for each
\* endpoint, identifier, method and custom part.
InitPath ==
    /\ is_auth_token_setted = TRUE
    /\ hdrCurrent = TRUE
    /\ tokState = "valid"
    /\ installable = TRUE
    /\ live = [threads |-> {}, gens |-> {}, items |-> {}]
    /\ pc = [t \in Threads |-> "idle"]
    /\ call = [t \in Threads |-> IdleCall]
    /\ it = [g \in Gens |-> NoFrame]
    /\ \E e \in Endpoints, i \in Idents, m \in Methods, c \in Customs :
          gp = [NoPath EXCEPT !.pc = "called", !.self = [endpoint |-> e],
                              !.identifier = i, !.method = m, !.custom = c]

NextPath == GetPath

PathSpec == InitPath /\ [][NextPath]_vars

-----------------------------------------------------------------------------
(* Properties of check_token.                                               *)

Count(log, name) == Cardinality({i \in DOMAIN log : log[i] = name})

\* C1: when line 29 is reached with no auth token installed, the wrapped
\* operation's body does not run and the call ends in the authorization
\* error, in no other error; the body only ever starts with a token installed.
C1_FailsClosed ==
    \A t \in Threads :
        /\ (pc[t] = "ret" /\ call[t].final = "unset") =>
              /\ call[t].outcome.kind = "unauthorized"
              /\ ~call[t].bodyRan
              /\ call[t].sent = <<>>
        /\ call[t].bodyRan => call[t].final = "set"
        /\ pc[t] = "l31" => call[t].final = "set"

\* C1: a call has ended at line 30, nothing installed, after set_auth_token
\* returned without installing.
C1_Witness ==
    \E t \in Threads :
        /\ pc[t] = "ret"
        /\ call[t].final = "unset"
        /\ call[t].log # <<>>
        /\ call[t].outcome.kind = "unauthorized"

\* The body of a guarded call only starts with a token installed whose
\* tokens['auth'] is not expired.
BodyStartsWithValidToken ==
    \A t \in Threads :
        pc[t] = "l31" => is_auth_token_setted /\ ~is_expired

\* C2 as stated: the body starts only with an installed, unexpired token, and
\* every guarded call whose body did not run ended in an authorization error.
C2_Original ==
    /\ BodyStartsWithValidToken
    /\ \A t \in Threads :
          (pc[t] = "ret" /\ ~call[t].bodyRan) =>
              call[t].outcome.kind = "unauthorized"

\* C2 amended: the body starts only with an installed, unexpired token; a
\* guarded call whose body did not run ended either in the authorization
\* error of line 30, or in the RecommendAPIError that set_auth_token (line 17)
\* or refresh_token / set_auth_token (lines 21-22) raised, which the wrapper
\* lets through; that error is the last client call the wrapper made, and it
\* is not one of the proactive step.
C2_ValidTokenOrError ==
    /\ BodyStartsWithValidToken
    /\ \A t \in Threads :
          (pc[t] = "ret" /\ ~call[t].bodyRan) =>
              \/ /\ call[t].outcome.kind = "unauthorized"
                 /\ ~is_auth_token_setted
              \/ /\ call[t].outcome.kind = "api_error"
                 /\ call[t].final = "none"
                 /\ ~call[t].swallowed
                 /\ call[t].log # <<>>
                 /\ ~call[t].start.set \/ call[t].start.state = "expired"

\* C2: a call that began with an expired token is about to run its body.
C2_Witness ==
    \E t \in Threads :
        /\ pc[t] = "l31"
        /\ call[t].start.state = "expired"

\* C3: a call that began with an installed, expired token and reaches its
\* body has called refresh_token and then set_auth_token, these two in this
\* order, and the body starts with the refreshed credential installed.
C3_RefreshThenInstall ==
    \A t \in Threads :
        (pc[t] = "l31" /\ call[t].start.set /\ call[t].start.state = "expired") =>
            /\ call[t].log = <<"refresh_token", "set_auth_token">>
            /\ is_auth_token_setted
            /\ hdrCurrent
            /\ tokState = "valid"

\* C3: such a call is about to run its body.
C3_Witness ==
    \E t \in Threads :
        /\ pc[t] = "l31"
        /\ call[t].start.set
        /\ call[t].start.state = "expired"
        /\ Len(call[t].log) = 2

\* C4: once the proactive step has swallowed a RecommendAPIError, the call
\* goes on to line 29; with a token still installed it runs the wrapped
\* operation, one send as in any other call, and whatever the call then
\* returns or raises comes from that operation, not from the refresh.
C4_ProactiveFailureSwallowed ==
    \A t \in Threads :
        call[t].swallowed =>
            /\ pc[t] \in {"l29", "l31", "ret"}
            /\ (pc[t] = "ret" /\ is_auth_token_setted) =>
                  /\ call[t].bodyRan
                  /\ Len(call[t].sent) = 1
                  /\ call[t].sent[1] = Request(call[t])
            /\ (pc[t] = "ret" /\ ~call[t].bodyRan) =>
                  call[t].outcome.kind = "unauthorized"

\* C4: a call that began with an installed token in need of refresh has
\* swallowed a failure of the proactive step and run its body.
C4_Witness ==
    \E t \in Threads :
        /\ pc[t] = "ret"
        /\ call[t].swallowed
        /\ call[t].start.set
        /\ call[t].start.state = "need_refresh"
        /\ call[t].bodyRan
        /\ call[t].outcome.kind = "value"

\* The guard of the call on thread t is over: its body is about to run, or
\* the call has ended.
GuardOver(t) == pc[t] \in {"l31", "ret"}

\* C5 as stated: a guarded call on a client with no auth token set makes
\* exactly one set_auth_token call.
C5_Original ==
    \A t \in Threads :
        (GuardOver(t) /\ ~call[t].start.set) =>
            Count(call[t].log, "set_auth_token") = 1

\* C5 amended: a guarded call on a client with no auth token set, whose
\* token is neither expired nor in need of refresh, makes exactly one
\* set_auth_token call (and no refresh_token call).
C5_OneInstallWhenFresh ==
    \A t \in Threads :
        (GuardOver(t) /\ ~call[t].start.set /\ call[t].start.state = "valid") =>
            /\ Count(call[t].log, "set_auth_token") = 1
            /\ call[t].log = <<"set_auth_token">>

\* C5: such a call has run its body.
C5_Witness ==
    \E t \in Threads :
        /\ pc[t] = "ret"
        /\ ~call[t].start.set
        /\ call[t].start.state = "valid"
        /\ call[t].bodyRan

\* C12: a get, list, create, update or delete call makes at most one
\* client.send; once its body has run the call is over with exactly one send
\* made, and its outcome is what that send returned or raised: a
\* RecommendAPIError of the transport is the call's outcome at once, with no
\* second send and no second run of the body.
C12_ErrorPropagates ==
    \A t \in Threads :
        call[t].op \in UserOps =>
            /\ Len(call[t].sent) <= 1
            /\ Len(call[t].replies) = Len(call[t].sent)
            /\ call[t].bodyRan =>
                  /\ pc[t] = "ret"
                  /\ Len(call[t].sent) = 1
                  /\ call[t].outcome = call[t].replies[1]
            /\ (\E i \in DOMAIN call[t].replies :
                      call[t].replies[i].kind = "api_error") =>
                  /\ pc[t] = "ret"
                  /\ call[t].outcome.kind = "api_error"

\* C12: the single send of a delete call has raised and the call has ended
\* in that error.
C12_Witness ==
    \E t \in Threads :
        /\ pc[t] = "ret"
        /\ call[t].op = "delete"
        /\ call[t].bodyRan
        /\ call[t].replies = <<[kind |-> "api_error"]>>
        /\ call[t].outcome.kind = "api_error"

\* path(identifier) of the API object under test, spelled out: the endpoint
\* alone for a falsy identifier, else endpoint '/' str(identifier).
PathOf(identifier) ==
    IF identifier \in {None, PStr(<<>>), PInt(0)} THEN <<"e">>
    ELSE <<"e", "/">> \o Str(identifier)

\* C13: a get, list, create, update or delete call whose body ran has sent
\* one request: get sends GET to path(identifier); list sends GET to the bare
\* endpoint path; create sends POST and update sends PUT to path(identifier)
\* with the caller's data as body; delete sends DELETE to path(identifier)
\* with no body; and a result the transport returned is the result of the
\* call.
C13_VerbAndPath ==
    \A t \in Threads :
        (call[t].op \in UserOps /\ call[t].bodyRan) =>
            LET c == call[t]
                verb == CASE c.op \in {"get", "list"} -> "get"
                          [] c.op = "create" -> "post"
                          [] c.op = "update" -> "put"
                          [] c.op = "delete" -> "delete"
                path == IF c.op = "list" THEN <<"e">> ELSE PathOf(c.identifier)
                body == IF c.op \in {"create", "update"} THEN c.data ELSE "none"
            IN  /\ c.sent = <<[verb |-> verb, path |-> path, data |-> body]>>
                /\ c.replies[1].kind = "value" => c.outcome = c.replies[1]

\* C13: an update of the object with identifier 7 has sent its request and
\* got a result.
C13_Witness ==
    \E t \in Threads :
        /\ pc[t] = "ret"
        /\ call[t].op = "update"
        /\ call[t].identifier = PInt(7)
        /\ call[t].sent = <<[verb |-> "put", path |-> <<"e", "/", "7">>,
                             data |-> "d"]>>
        /\ call[t].outcome.kind = "value"

\* C14: a call of the API object with a truthy identifier is a get of that
\* identifier; with a falsy identifier (None, 0, the empty string) it is a
\* list, never a get, and the request it sends is a GET to the bare endpoint
\* path.
C14_CallDispatch ==
    \A t \in Threads :
        call[t].viaCall =>
            IF call[t].arg \in {None, PInt(0), PStr(<<>>)}
            THEN /\ call[t].op = "list"
                 /\ call[t].bodyRan =>
                       call[t].sent = <<[verb |-> "get", path |-> <<"e">>,
                                         data |-> "none"]>>
            ELSE /\ call[t].op = "get"
                 /\ call[t].identifier = call[t].arg
                 /\ call[t].bodyRan =>
                       call[t].sent = <<[verb |-> "get",
                                         path |-> <<"e", "/">> \o Str(call[t].arg),
                                         data |-> "none"]>>

\* C14: the API object was called with identifier 0 and the list it
\* dispatched to has sent its request.
C14_Witness ==
    \E t \in Threads :
        /\ call[t].viaCall
        /\ call[t].arg = PInt(0)
        /\ call[t].op = "list"
        /\ call[t].bodyRan

C19_ExpiredRefreshFailurePropagates ==
    \A t \in Threads :
        LET c == call[t]
        IN  /\ (\E i \in DOMAIN c.raised : c.raised[i] \in {"l21", "l22"}) =>
                  /\ pc[t] = "ret"
                  /\ c.outcome.kind = "api_error"
                  /\ ~c.swallowed
                  /\ c.final = "none"
                  /\ ~c.bodyRan
                  /\ c.sent = <<>>
                  /\ Len(c.raised) = 1
            /\ c.swallowed =>
                  \A i \in DOMAIN c.raised : c.raised[i] \in {"l25", "l26"}

\* C19: a call that began with an installed, expired token has refreshed it,
\* and the set_auth_token of line 22 has raised and ended the call.
C19_Witness ==
    \E t \in Threads :
        /\ pc[t] = "ret"
        /\ call[t].start.set
        /\ call[t].start.state = "expired"
        /\ call[t].log = <<"refresh_token", "set_auth_token">>
        /\ call[t].raised = <<"l22">>
        /\ call[t].outcome.kind = "api_error"

-----------------------------------------------------------------------------
(* Properties of search_iterator.                                           *)

\* C6 as stated: the iterator raises the API error on the (max_failed+1)-th
\* failed search call in a row, never earlier and never later, a failed call
\* being one that raised RecommendAPIError or returned no dict; and a page
\* (a call that returned a dict) leaves failed_count at 0.
C6_ConsecutiveFailures ==
    \A g \in Gens :
        /\ (it[g].pc = "raised" /\ it[g].err \in {"api", "empty"}) =>
              it[g].consecFailed = it[g].max_failed + 1
        /\ it[g].consecFailed > it[g].max_failed => it[g].pc = "raised"
        /\ (it[g].lastKind = "page" /\ it[g].pc # "calling") =>
              it[g].failed_count = 0

\* C7 as stated: once search has returned a non-dict on max_failed+1 calls in
\* a row, the iterator has raised the 'Empty result.' error and calls search
\* no more.
C7_NotDictCounted ==
    \A g \in Gens :
        it[g].consecNotDict > it[g].max_failed =>
            /\ it[g].pc = "raised"
            /\ it[g].err = "empty"

\* The generator has stopped (StopIteration) or raised.
Finished(g) == it[g].pc \in {"done", "raised"}

\* C8 as stated: whatever search does, a generator that is consumed to the
\* end finishes, by stopping or by raising.
C8_Terminates == \A g \in Gens : <>(g \in live.gens => Finished(g))

\* C9: once lines 224-227 have run for a page, the generator has stopped if
\* and only if the page's total (0 when absent) is below its limit (0 when
\* absent); otherwise it goes on to the next search call.
C9_StopsIffTotalBelowLimit ==
    \A g \in Gens :
        (it[g].lastKind = "page" /\ it[g].pc \in {"done", "l216", "calling"}) =>
            /\ it[g].pc = "done" <=> it[g].lastTotal < it[g].limit
            /\ it[g].pc = "calling" =>
                  call[it[g].runner].limit = it[g].limit

\* C9: a generator has stopped on a page whose total is below its limit, after
\* a page with total equal to limit had let it go on.
C9_Witness ==
    \E g \in Gens :
        /\ it[g].pc = "done"
        /\ it[g].lastTotal < it[g].limit
        /\ it[g].skip > it[g].start_skip

\* C10: a search call that follows a failed one (RecommendAPIError raised by
\* search, or the error raised for a non-dict result) is made with the skip
\* and the limit of the failed call.
C10_RetrySameCursor ==
    \A g \in Gens :
        (it[g].pc = "calling" /\ it[g].lastKind \in {"api_error", "not_dict"}) =>
            /\ call[it[g].runner].skip = it[g].lastSkip
            /\ call[it[g].runner].limit = it[g].lastLimit
            /\ it[g].skip = it[g].lastSkip
            /\ it[g].limit = it[g].lastLimit

\* C10: a retry is in progress at a cursor that earlier pages had advanced.
C10_Witness ==
    \E g \in Gens :
        /\ it[g].pc = "calling"
        /\ it[g].lastKind = "api_error"
        /\ it[g].failed_count > 0
        /\ it[g].skip > it[g].start_skip

-----------------------------------------------------------------------------
(* Two threads in the guard.                                                *)

\* C16: nothing in the guard makes a thread wait for another: a thread that
\* is at a line of the wrapper can take that line whatever line the other
\* thread is at.  (That two threads then both refresh for one expiry is
\* the state C16_Witness describes.)
C16_NoSerialisation ==
    \A t \in Threads : pc[t] \in GuardLines => ENABLED Guard(t)

\* C16: two calls in progress at once both read is_expired as true at line
\* 20 before either had refreshed, and the refresh_token of each (line 21)
\* has returned: two refreshes for one expiry, neither yet installed.
C16_Witness ==
    /\ \A t \in Threads :
          /\ pc[t] = "l22"
          /\ call[t].start.state = "expired"
          /\ Count(call[t].log, "refresh_token") = 1
    /\ Count(call[1].log, "refresh_token") + Count(call[2].log, "refresh_token") > 1

\* C18: the first search call of a generator is made with skip = start_skip
\* and limit = 3000; the call that follows a page which reported limit L
\* (0 when absent) and did not end the iteration is made with the skip of
\* that page's call plus L and with limit L; the skip of a generator that has
\* started is at least start_skip, and no step makes it smaller.
C18_CursorAdvance ==
    /\ [](\A g \in Gens :
             /\ (it[g].pc = "calling" /\ it[g].lastKind = "none") =>
                   /\ call[it[g].runner].skip = it[g].start_skip
                   /\ call[it[g].runner].limit = InitLimit
             /\ (it[g].pc = "calling" /\ it[g].lastKind = "page") =>
                   /\ call[it[g].runner].skip = it[g].lastSkip + it[g].lastPageLimit
                   /\ call[it[g].runner].limit = it[g].lastPageLimit
             /\ it[g].pc \notin {"none", "created"} => it[g].skip >= it[g].start_skip)
    /\ [][\A g \in Gens :
             it[g].pc \notin {"none", "created"} => it'[g].skip >= it[g].skip]_vars

\* C18: the call after a page that reported limit 1 is in progress, one
\* offset further than the call that fetched the page.
C18_Witness ==
    \E g \in Gens :
        /\ it[g].pc = "calling"
        /\ it[g].lastKind = "page"
        /\ it[g].lastPageLimit = 1
        /\ call[it[g].runner].skip = it[g].lastSkip + 1
        /\ call[it[g].runner].limit = 1

\* C20: what a generator has yielded, followed by what is still pending of
\* the page it is suspended in, is the concatenation, in call order, of the
\* data lists of the search calls that returned a dict; whenever it is not
\* suspended inside a page, what it has yielded is exactly that
\* concatenation.  A call that failed or returned no dict adds nothing, and
\* a retry yields nothing that was yielded before.
C20_YieldsAreServedData ==
    \A g \in Gens :
        /\ it[g].served = it[g].yielded \o it[g].pending
        /\ it[g].pc # "l223" => it[g].yielded = it[g].served

\* C20: after a page with data 'b', 'a' and a failed call, the retry is in
\* progress and exactly 'b', 'a' have been yielded.
C20_Witness ==
    \E g \in Gens :
        /\ it[g].pc = "calling"
        /\ it[g].lastKind \in {"api_error", "not_dict"}
        /\ it[g].yielded = <<"b", "a">>
        /\ it[g].served = <<"b", "a">>

-----------------------------------------------------------------------------
(* Properties of get_path.                                                  *)

\* The segments named by the rules: the endpoint; the identifier if truthy;
\* the method if truthy; then the custom part, all the elements of a custom
\* whose type is in `spread`, one segment for any other truthy custom.
Segments(g, spread) ==
    <<Str(g.self.endpoint)>>
    \o (IF g.identifier \in {None, PStr(<<>>), PInt(0)} THEN <<>>
        ELSE <<Str(g.identifier)>>)
    \o (IF g.method \in {None, PStr(<<>>)} THEN <<>> ELSE <<Str(g.method)>>)
    \o (IF g.custom \in {None, PStr(<<>>), PInt(0), PList(<<>>), PTuple(<<>>)}
        THEN <<>>
        ELSE IF g.custom.t \in spread
             THEN [k \in 1..Len(g.custom.l) |-> Str(g.custom.l[k])]
             ELSE <<Str(g.custom)>>)

\* C15 as stated: the result of get_path is the '/'-join of the segments,
\* with every sequence custom (a list or a tuple) contributing its elements.
C15_Original ==
    gp.pc = "returned" => gp.result = Join(Segments(gp, {"list", "tuple"}))

\* C15 amended: the result of get_path is the '/'-join of the endpoint, the
\* identifier if truthy, the method if truthy, and the custom part, where a
\* custom that is a non-empty list contributes its elements in order and any
\* other truthy custom (a tuple included) contributes str(custom) as one
\* segment; the call leaves the API object, its arguments and the client as
\* they were.
C15_PathOfParts ==
    /\ [](gp.pc = "returned" => gp.result = Join(Segments(gp, {"list"})))
    /\ [][/\ gp'.self = gp.self
          /\ gp'.identifier = gp.identifier
          /\ gp'.method = gp.method
          /\ gp'.custom = gp.custom
          /\ UNCHANGED <<clientVars, live, pc, call, it>>]_gp

\* C15: get_path('e', 7, 's', ['a', 7]) has returned 'e/7/s/a/7'.
C15_Witness ==
    /\ gp.pc = "returned"
    /\ gp.identifier = PInt(7)
    /\ gp.method = PStr(<<"s">>)
    /\ gp.custom = PList(<<PStr(<<"a">>), PInt(7)>>)
    /\ gp.result = <<"e", "/", "7", "/", "s", "/", "a", "/", "7">>

-----------------------------------------------------------------------------
(* Two generators of one API object.                                        *)

\* The cursor of a frame, with where it stands and what it has yielded.
Cursor(f) == <<f.pc, f.skip, f.limit, f.failed_count, f.pending, f.yielded>>

\* C11: the cursor is local to one generator.  Every step that changes the
\* frame of a generator g leaves the frame of the other generator as it was,
\* and what it does to g is what g would do alone: its first next() starts
\* from its own start_skip, limit 3000 and failed_count 0; its search call
\* carries its own skip and limit; the frame after the call follows from
\* its own frame and the outcome of its own call; a resumption yields its
\* own next pending item or runs lines 224-227 on its own page.
C11_CursorLocal ==
    [][\A g \in Gens :
          it'[g] # it[g] =>
              LET f == it[g]
                  n == it'[g]
              IN  /\ \A h \in Gens \ {g} : it'[h] = it[h]
                  /\ f.pc = "created" =>
                        /\ n.skip = f.start_skip
                        /\ n.limit = InitLimit
                        /\ n.failed_count = 0
                  /\ f.pc = "l216" =>
                        /\ call'[f.runner].caller = g
                        /\ call'[f.runner].skip = f.skip
                        /\ call'[f.runner].limit = f.limit
                        /\ Cursor(n) = Cursor([f EXCEPT !.pc = "calling"])
                  /\ f.pc = "calling" =>
                        /\ call[f.runner].caller = g
                        /\ Cursor(n) = Cursor(Handle(f, call[f.runner].outcome))
                  /\ f.pc = "l223" =>
                        IF f.pending # <<>>
                        THEN Cursor(n) =
                               Cursor([f EXCEPT !.pending = Tail(f.pending),
                                                !.yielded = Append(f.yielded,
                                                                   Head(f.pending))])
                        ELSE Cursor(n) = Cursor(AfterPage(f))
      ]_vars

\* C11: generator 1 is suspended at a yield of a page while generator 2, which
\* has had a failed call, is in its retry at another offset.
C11_Witness ==
    /\ it[1].pc = "l223"
    /\ it[1].lastKind = "page"
    /\ it[2].pc = "calling"
    /\ it[2].failed_count = 1
    /\ call[it[2].runner].skip # it[1].skip

====
